---- MODULE Spec2Model ----
(***************************************************************************)
(* GluePythonJobHelper (dbt/adapters/glue/python_submissions.py): one      *)
(* submit() invocation against a Glue interactive session.                 *)
(*                                                                         *)
(* The session client (connection.cursor/close, run_statement,             *)
(* get_statement), the wall clock and the remote session are the           *)
(* environment.  Every client call either returns or raises; the remote    *)
(* statements progress on their own; the clock is advanced by time.sleep   *)
(* and by the time a get_statement call takes.                             *)
(*                                                                         *)
(* Texts are sequences of tokens; a Status value is a sequence of          *)
(* characters so that str.lower() is computed character by character.      *)
(* A Python dict is a function whose DOMAIN is the set of keys present.    *)
(***************************************************************************)
EXTENDS Integers, Sequences, FiniteSets, TLC

\* ---------------------------------------------------------------- bounds
MaxTimeout == 11
MaxLatency == 2
MaxDeclared == 1
MaxStatements == 2

\* ------------------------------------------------------ program constants
polling_interval == 10

\* ------------------------------------------------------------ python bits
Range(s) == { s[i] : i \in 1..Len(s) }

EmptyDict == [k \in {} |-> k]

\* dict.get(k, default)
Get(d, k, default) == IF k \in DOMAIN d THEN d[k] ELSE default

UpperLetters ==
  << "A","B","C","D","E","F","G","H","I","J","K","L","M",
     "N","O","P","Q","R","S","T","U","V","W","X","Y","Z" >>

LowerLetters ==
  << "a","b","c","d","e","f","g","h","i","j","k","l","m",
     "n","o","p","q","r","s","t","u","v","w","x","y","z" >>

lower_char(c) ==
  IF \E i \in DOMAIN UpperLetters : UpperLetters[i] = c
  THEN LowerLetters[CHOOSE i \in DOMAIN UpperLetters : UpperLetters[i] = c]
  ELSE c

\* a faulty variant of str.lower(): the text is compared as it is
lower_identity(s) == s

\* str.lower()
lower(s) == [i \in 1..Len(s) |-> lower_char(s[i])]

\* dict.fromkeys(seq): the keys in first-occurrence order
RECURSIVE dict_fromkeys(_)
dict_fromkeys(s) ==
  IF s = <<>> THEN <<>>
  ELSE LET head == dict_fromkeys(SubSeq(s, 1, Len(s) - 1))
           x == s[Len(s)]
       IN IF x \in Range(head) THEN head ELSE Append(head, x)

\* list(set(...)): the elements once each, in an order the hashing decides
ListsOfSet(S) ==
  { q \in [1..Cardinality(S) -> S] : Range(q) = S }

\* sep.join(parts) over token sequences
RECURSIVE join(_, _)
join(sep, parts) ==
  IF parts = <<>> THEN <<>>
  ELSE IF Len(parts) = 1 THEN parts[1]
  ELSE parts[1] \o <<sep>> \o join(sep, Tail(parts))

\* exceptions: a type and the message given to the constructor (a token
\* sequence, a line break being the token "\n")
None == [type |-> "None", msg |-> <<>>]
DbtRuntimeError(msg) == [type |-> "DbtRuntimeError", msg |-> msg]
ClientError(op) == [type |-> "ClientError", msg |-> <<op, " failed">>]

\* "\n".join("  " + line for line in msg.split("\n"))
RECURSIVE indented(_)
indented(msg) ==
  IF msg = <<>> THEN <<>>
  ELSE (IF msg[1] = "\n" THEN <<"\n", "  ">> ELSE <<msg[1]>>)
       \o indented(Tail(msg))

\* str(e): a DbtRuntimeError prints as the line "Runtime Error" followed by
\* the lines of its message, each indented by two spaces; any other
\* exception prints as its message
str(e) ==
  IF e.type = "DbtRuntimeError"
  THEN <<"Runtime Error", "\n", "  ">> \o indented(e.msg)
  ELSE e.msg

\* ------------------------------------------------------------ the inputs
\* parsed_model["config"]["packages"]: the prefixes of a list that names a
\* package of the compiled code, twice, and one that is only declared
DeclaredSample == <<"b", "b", "a">>

DeclaredLists ==
  { SubSeq(DeclaredSample, 1, n) : n \in 0..MaxDeclared }

\* parsed_model["config"]["timeout"]: 0 (no poll at all) and a value above
\* one polling interval (a second poll when the first one was fast)
Timeouts == {0, MaxTimeout}

\* compiled code: its text (one token) and what ast.parse makes of it, the
\* nodes in ast.walk order; "<None>" stands for an argument that is no text
Other == [type |-> "Other"]
Constant(v) == [type |-> "Constant", value |-> v]
NameNode(id) == [type |-> "Name", id |-> id]
ListNode(elts) == [type |-> "List", elts |-> elts]
Keyword(arg, value) == [arg |-> arg, value |-> value]

ConfigCall(recv, attr, keywords) ==
  [type |-> "Call",
   func |-> [type |-> "Attribute", attr |-> attr, value |-> NameNode(recv)],
   keywords |-> keywords]

Codes ==
  { [text |-> "df = 1",
     parse |-> "ok",
     nodes |-> <<Other, Other>>],
    [text |-> "dbt.config(packages=[\"b\", \"c\"])",
     parse |-> "ok",
     nodes |-> <<Other,
                 ConfigCall("dbt", "config",
                   <<Keyword("packages",
                       ListNode(<<Constant("b"), Constant("c")>>))>>)>>],
    [text |-> "dbt.config(materialized=\"table\", packages=pkgs)",
     parse |-> "ok",
     nodes |-> <<Other,
                 ConfigCall("dbt", "config",
                   <<Keyword("materialized", Constant("table")),
                     Keyword("packages", NameNode("pkgs"))>>)>>],
    [text |-> "def model(:",
     parse |-> "SyntaxError",
     nodes |-> <<>>],
    [text |-> "<None>",
     parse |-> "TypeError",
     nodes |-> <<>>] }

\* the statements the scanned programs are made of: the text of each and
\* the Call node ast.parse makes of it (Other for a node that is no Call)
CallNode(func, keywords) ==
  [type |-> "Call", func |-> func, keywords |-> keywords]

Attribute(value, attr) == [type |-> "Attribute", attr |-> attr, value |-> value]

TupleNode(elts) == [type |-> "Tuple", elts |-> elts]

Statements ==
  << [text |-> "x = 1",
      node |-> Other],
     [text |-> "dbt.config(packages=[\"b\", \"a\"])",
      node |-> ConfigCall("dbt", "config",
                 <<Keyword("packages",
                     ListNode(<<Constant("b"), Constant("a")>>))>>)],
     [text |-> "dbt.config(materialized=\"table\", packages=[\"c\"])",
      node |-> ConfigCall("dbt", "config",
                 <<Keyword("materialized", Constant("table")),
                   Keyword("packages", ListNode(<<Constant("c")>>))>>)],
     [text |-> "dbt.config(packages=pkgs)",
      node |-> ConfigCall("dbt", "config",
                 <<Keyword("packages", NameNode("pkgs"))>>)],
     [text |-> "dbt.config(packages=[\"d\", pkg, \"e\"])",
      node |-> ConfigCall("dbt", "config",
                 <<Keyword("packages",
                     ListNode(<<Constant("d"), NameNode("pkg"),
                                Constant("e")>>))>>)],
     [text |-> "dbt.config(packages=[])",
      node |-> ConfigCall("dbt", "config",
                 <<Keyword("packages", ListNode(<<>>))>>)],
     [text |-> "dbt.config(packages=(\"t\",))",
      node |-> ConfigCall("dbt", "config",
                 <<Keyword("packages", TupleNode(<<Constant("t")>>))>>)],
     [text |-> "other.config(packages=[\"z\"])",
      node |-> ConfigCall("other", "config",
                 <<Keyword("packages", ListNode(<<Constant("z")>>))>>)],
     [text |-> "dbt.configure(packages=[\"y\"])",
      node |-> ConfigCall("dbt", "configure",
                 <<Keyword("packages", ListNode(<<Constant("y")>>))>>)],
     [text |-> "config(packages=[\"x\"])",
      node |-> CallNode(NameNode("config"),
                 <<Keyword("packages", ListNode(<<Constant("x")>>))>>)],
     [text |-> "self.dbt.config(packages=[\"w\"])",
      node |-> CallNode(Attribute(Attribute(NameNode("self"), "dbt"), "config"),
                 <<Keyword("packages", ListNode(<<Constant("w")>>))>>)] >>

\* "\n".join(lines)
RECURSIVE lines(_)
lines(texts) ==
  IF texts = <<>> THEN ""
  ELSE IF Len(texts) = 1 THEN texts[1]
  ELSE texts[1] \o "\n" \o lines(Tail(texts))

\* a program of the statements chosen: the Module node, then the statements'
\* nodes, which ast.walk reaches in the order of the text
Program(chosen) ==
  [text |-> lines([i \in 1..Len(chosen) |-> Statements[chosen[i]].text]),
   parse |-> "ok",
   nodes |-> <<Other>> \o [i \in 1..Len(chosen) |-> Statements[chosen[i]].node]]

\* texts ast.parse rejects, and an argument that is no text
Unparsable ==
  { [text |-> "def model(:",
     parse |-> "SyntaxError",
     nodes |-> <<>>],
    [text |-> "dbt.config(packages=[\"b\", \"a\"])\ndef model(:",
     parse |-> "SyntaxError",
     nodes |-> <<>>],
    [text |-> "<None>",
     parse |-> "TypeError",
     nodes |-> <<>>] }

ScanCodes ==
  { Program(chosen) :
      chosen \in UNION { [1..n -> DOMAIN Statements] : n \in 0..MaxStatements } }
  \cup Unparsable

\* ------------------------------------------- _extract_packages_from_code
\* a faulty variant of the test on the call: any receiver will do
IsDbtConfigCall_any_receiver(node) ==
  /\ node.type = "Call"
  /\ node.func.type = "Attribute"
  /\ node.func.attr = "config"

IsDbtConfigCall(node) ==
  /\ node.type = "Call"
  /\ node.func.type = "Attribute"
  /\ node.func.attr = "config"
  /\ node.func.value.type = "Name"
  /\ node.func.value.id = "dbt"

IsPackagesList(kw) ==
  /\ kw.arg = "packages"
  /\ kw.value.type = "List"

\* the (node, keyword) positions the two loops would return at
PackageHits(nodes) ==
  UNION { IF IsDbtConfigCall(nodes[i])
          THEN { <<i, j>> : j \in { k \in DOMAIN nodes[i].keywords :
                                      IsPackagesList(nodes[i].keywords[k]) } }
          ELSE {} : i \in DOMAIN nodes }

FirstHit(H) ==
  CHOOSE ij \in H :
    \A kl \in H : ij[1] < kl[1] \/ (ij[1] = kl[1] /\ ij[2] <= kl[2])

IsConstant(elt) == elt.type = "Constant"

extract_packages_from_code(code) ==
  IF code.parse # "ok" THEN <<>>
  ELSE IF PackageHits(code.nodes) = {} THEN <<>>
  ELSE LET ij == FirstHit(PackageHits(code.nodes))
           elts == code.nodes[ij[1]].keywords[ij[2]].value.elts
           kept == SelectSeq(elts, IsConstant)
       IN [i \in 1..Len(kept) |-> kept[i].value]

\* ------------------------------------------------------ submit: packages
\* a faulty variant of the merge: the packages of the compiled code are left out
merged_packages_declared_only(declared_, code_packages) == Range(declared_)

\* set(dict.fromkeys(self.packages + code_packages))
merged_packages(declared_, code_packages) ==
  Range(dict_fromkeys(declared_ \o code_packages))

quoted(pkg) == <<"\"", pkg, "\"">>

pkg_list(packages) ==
  join(", ", [i \in 1..Len(packages) |-> quoted(packages[i])])

install_code(packages) ==
  <<"import subprocess, sys\n",
    "subprocess.check_call([sys.executable, '-m', 'pip', 'install', ">>
  \o pkg_list(packages) \o <<", '-q'])">>

\* if packages:
needs_install(packages) == packages # <<>>

\* ---------------------------------------------------------------- state
VARIABLES
  pc,            \* where submit() is
  timeout,       \* self.timeout
  declared,      \* self.packages
  compiled_code, \* the argument of submit
  code_packages, \* the local list code_packages
  packages,      \* the local list packages
  session_id,    \* connection.session_id
  phase,         \* the statement being run or awaited: none, install, main
  statement_id,  \* the handle being awaited
  start_time,    \* the local of _wait_for_statement_completion
  now,           \* time.time()
  exc,           \* the exception in flight inside the try block
  outcome,       \* running, returned, raised
  raised,        \* the exception that left submit
  remote,        \* the session's statements, by Id
  calls,         \* what a spy on the client, the connection and time.sleep saw
  waits          \* how each _wait_for_statement_completion call ended

vars ==
  << pc, timeout, declared, compiled_code, code_packages, packages,
     session_id, phase, statement_id, start_time, now, exc, outcome, raised,
     remote, calls, waits >>

NoSession == "-"

SessionIds == {"session-1", "session-2"}

\* one entry of the spy's log
Call(op, session, stmt, code, id, result, response, took) ==
  [op |-> op, SessionId |-> session, stmt |-> stmt, Code |-> code, Id |-> id,
   result |-> result, response |-> response, took |-> took]

\* how a _wait_for_statement_completion call ended
WaitEnd(result, at, ncalls) ==
  [Id |-> statement_id, stmt |-> phase, result |-> result,
   elapsed |-> at - start_time, ncalls |-> ncalls]

Init ==
  /\ pc = "start"
  /\ timeout \in Timeouts
  /\ declared \in DeclaredLists
  /\ compiled_code \in Codes
  /\ code_packages = <<>>
  /\ packages = <<>>
  /\ session_id = NoSession
  /\ phase = "none"
  /\ statement_id = 0
  /\ start_time = 0
  /\ now = 0
  /\ exc = None
  /\ outcome = "running"
  /\ raised = None
  /\ remote = <<>>
  /\ calls = <<>>
  /\ waits = <<>>

\* ------------------------------------------------------ the remote session
\* The Glue session runs the statements on its own.  Its progress since the
\* last poll is taken at the head of the poll loop (after start_time is read,
\* and after each sleep), before the clock is checked: submit looks at the
\* session nowhere else.  RUNNING stands for every state that is neither
\* AVAILABLE, CANCELLED nor ERROR (WAITING, RUNNING, CANCELLING): the loop
\* treats them alike.
Outputs ==
  { EmptyDict,
    [Status |-> <<"o","k">>],
    [Status |-> <<"e","r","r","o","r">>, ErrorName |-> "NameError",
     ErrorValue |-> "name 'x' is not defined", Traceback |-> "Traceback: ..."],
    [Status |-> <<"E","R","R","O","R">>, ErrorName |-> "KeyError"],
    [Status |-> <<"E","r","r","o","r">>] }

Finished(st, state) == [Code |-> st.Code, State |-> state]

RemoteNext(st) ==
  CASE st.State = "RUNNING" ->
         { Finished(st, "AVAILABLE"), Finished(st, "ERROR"),
           Finished(st, "CANCELLED") }
         \cup { [Code |-> st.Code, State |-> "AVAILABLE", Output |-> o] :
                o \in Outputs }
    [] OTHER -> {}

Waiting == pc = "loop"

RemoteStep ==
  /\ Waiting
  /\ \E i \in DOMAIN remote :
       \E st \in RemoteNext(remote[i]) :
         remote' = [remote EXCEPT ![i] = st]
  /\ UNCHANGED << pc, timeout, declared, compiled_code, code_packages,
                  packages, session_id, phase, statement_id, start_time, now,
                  exc, outcome, raised, calls, waits >>

\* ------------------------------------------------------------------ submit
\* GlueConnection.cursor() and GlueConnection.close(): each returns or
\* raises (connection open/close are among the calls that can fail)
CursorResults == {"ok", "raise"}

CloseResults == {"ok", "raise"}

\* glue_client.run_statement / get_statement: each returns or raises
ClientResults == {"ok", "raise"}

\* connection = GlueConnection(credentials); cursor = connection.cursor()
Connect ==
  /\ pc = "start"
  /\ \E r \in CursorResults :
       /\ calls' = Append(calls,
                     Call("cursor", NoSession, "-", <<>>, 0, r, EmptyDict, 0))
       /\ IF r = "ok"
          THEN /\ session_id' \in SessionIds
               /\ pc' = "scan"
               /\ UNCHANGED << outcome, raised >>
          ELSE /\ outcome' = "raised"
               /\ raised' = ClientError("cursor")
               /\ pc' = "done"
               /\ UNCHANGED session_id
  /\ UNCHANGED << timeout, declared, compiled_code, code_packages, packages,
                  phase, statement_id, start_time, now, exc, remote, waits >>

\* what ast.parse raises: SyntaxError for a text that is no Python,
\* TypeError for an argument that is no text
ParseError(kind) == [type |-> kind, msg |-> <<"ast.parse: ", kind>>]

\* a faulty variant of the except clause of the scan: the exception goes on
swallow_reraise(e) == e

\* except Exception: pass
swallow(e) == None

\* code_packages = self._extract_packages_from_code(compiled_code): the
\* try block
Scan ==
  /\ pc = "scan"
  /\ IF compiled_code.parse = "ok"
     THEN /\ code_packages' = extract_packages_from_code(compiled_code)
          /\ pc' = "merge"
          /\ UNCHANGED exc
     ELSE /\ exc' = ParseError(compiled_code.parse)
          /\ pc' = "scan_except"
          /\ UNCHANGED code_packages
  /\ UNCHANGED << timeout, declared, compiled_code, packages, session_id,
                  phase, statement_id, start_time, now, outcome, raised,
                  remote, calls, waits >>

\* the except clause and return []; an exception the clause let through
\* would leave submit, the call being made before the try block of submit
ScanExcept ==
  /\ pc = "scan_except"
  /\ exc' = swallow(exc)
  /\ IF exc' = None
     THEN /\ code_packages' = <<>>
          /\ pc' = "merge"
          /\ UNCHANGED << outcome, raised >>
     ELSE /\ outcome' = "raised"
          /\ raised' = exc'
          /\ pc' = "done"
          /\ UNCHANGED code_packages
  /\ UNCHANGED << timeout, declared, compiled_code, packages, session_id,
                  phase, statement_id, start_time, now, remote, calls,
                  waits >>

\* packages = list(set(dict.fromkeys(...))); try: if packages:
MergePackages ==
  /\ pc = "merge"
  /\ packages' \in ListsOfSet(merged_packages(declared, code_packages))
  /\ pc' = IF needs_install(packages') THEN "run_install" ELSE "run_main"
  /\ UNCHANGED << timeout, declared, compiled_code, code_packages, session_id,
                  phase, statement_id, start_time, now, exc, outcome, raised,
                  remote, calls, waits >>

\* a faulty variant of the call sequence: the install statement is not awaited
after_run_no_wait(stmt) == IF stmt = "install" THEN "run_main" ELSE "wait"

\* each _run_statement call is followed by _wait_for_statement_completion
after_run(stmt) == "wait"

\* a faulty variant of the error path: a failed client call is tried again
on_client_error_retry == IF pc = "poll" THEN "sleep" ELSE "except"

\* an exception of a client call leaves the try block for the except clause
on_client_error == "except"

\* a faulty variant of the handle: the wait of the main statement is given
\* the handle of the install statement
returned_handle_stale(response) ==
  IF statement_id = 0 THEN response.Id ELSE statement_id

\* return response["Id"]: the handle the following wait is given
returned_handle(response) == response.Id

\* _run_statement(glue_client, session_id, code)
run_statement(stmt, code) ==
  /\ phase' = stmt
  /\ \E r \in ClientResults :
       IF r = "ok"
       THEN /\ remote' = Append(remote, [Code |-> code, State |-> "RUNNING"])
            /\ statement_id' = returned_handle([Id |-> Len(remote) + 1])
            /\ calls' = Append(calls,
                          Call("run_statement", session_id, stmt, code,
                               Len(remote) + 1, "ok", EmptyDict, 0))
            /\ pc' = after_run(stmt)
            /\ UNCHANGED exc
       ELSE /\ calls' = Append(calls,
                          Call("run_statement", session_id, stmt, code, 0,
                               "raise", EmptyDict, 0))
            /\ exc' = ClientError("run_statement")
            /\ pc' = on_client_error
            /\ UNCHANGED << remote, statement_id >>
  /\ UNCHANGED << timeout, declared, compiled_code, code_packages, packages,
                  session_id, start_time, now, outcome, raised, waits >>

RunInstall ==
  /\ pc = "run_install"
  /\ run_statement("install", install_code(packages))

RunMain ==
  /\ pc = "run_main"
  /\ run_statement("main", <<compiled_code.text>>)

\* a faulty variant of the start of the loop: one clock for the whole submit
loop_start_shared(previous) == IF waits = <<>> THEN now ELSE previous

\* start_time = time.time(), whatever an earlier wait left in it
loop_start(previous) == now

\* start_time = time.time()
WaitStart ==
  /\ pc = "wait"
  /\ start_time' = loop_start(start_time)
  /\ pc' = "loop"
  /\ UNCHANGED << timeout, declared, compiled_code, code_packages, packages,
                  session_id, phase, statement_id, now, exc, outcome, raised,
                  remote, calls, waits >>

TimedOut ==
  DbtRuntimeError(<<"Timed out waiting for statement to complete">>)

\* a faulty variant of the loop condition: one more poll after the timeout
within_timeout_last_poll(elapsed) == elapsed < timeout + polling_interval

\* a faulty variant of the loop condition: <= for <
within_timeout_inclusive(elapsed) == elapsed <= timeout

\* time.time() - start_time < self.timeout
within_timeout(elapsed) == elapsed < timeout

\* a faulty variant of the timeout: the statement awaited is cancelled
on_timeout_cancel(statements) ==
  [statements EXCEPT ![statement_id] = Finished(@, "CANCELLED")]

\* the session's statements after the timeout: the loop raises and sends
\* nothing to the session
on_timeout(statements) == statements

\* while ...: / raise DbtRuntimeError("Timed out ...")
LoopCheck ==
  /\ pc = "loop"
  /\ IF within_timeout(now - start_time)
     THEN /\ pc' = "poll"
          /\ UNCHANGED << exc, waits, remote >>
     ELSE /\ exc' = TimedOut
          /\ waits' = Append(waits, WaitEnd(TimedOut, now, Len(calls)))
          /\ remote' = on_timeout(remote)
          /\ pc' = "except"
  /\ UNCHANGED << timeout, declared, compiled_code, code_packages, packages,
                  session_id, phase, statement_id, start_time, now, outcome,
                  raised, calls >>

ErrorStatus == <<"e","r","r","o","r">>

\* a faulty variant of the status test: no output is ever an error
is_error_status_never(status) == FALSE

\* a faulty variant of the failure states: a cancelled statement is waited for
FailureStates_error_only == {"ERROR"}

\* status.lower() == "error"
is_error_status(status) == lower(status) = ErrorStatus

ModelFailed(output) ==
  DbtRuntimeError(<<"Python model failed with error: ",
                    Get(output, "ErrorName", ""), "\n",
                    Get(output, "ErrorValue", ""), "\n",
                    Get(output, "Traceback", "")>>)

StateFailed(state) ==
  DbtRuntimeError(<<"Statement execution failed with state: ", state>>)

FailureStates == {"CANCELLED", "ERROR"}

\* the body of the loop after get_statement: what it does with a response
poll_result(response) ==
  LET state == response.Statement.State
      output == Get(response.Statement, "Output", EmptyDict)
      status == Get(output, "Status", <<>>)
  IN IF state = "AVAILABLE"
     THEN IF is_error_status(status)
          THEN [do |-> "raise", exc |-> ModelFailed(output)]
          ELSE [do |-> "return", exc |-> None]
     ELSE IF state \in FailureStates
          THEN [do |-> "raise", exc |-> StateFailed(state)]
          ELSE [do |-> "sleep", exc |-> None]

\* where submit goes on when a wait returns
after_wait(stmt) == IF stmt = "install" THEN "run_main" ELSE "finally"

\* the seconds a get_statement call takes: none, or more than one
Latencies == {0, MaxLatency}

\* response = glue_client.get_statement(...) and the tests on its state
Poll ==
  /\ pc = "poll"
  /\ \E took \in Latencies :
       /\ now' = now + took
       /\ \E res \in ClientResults :
          IF res = "raise"
          THEN
             /\ calls' = Append(calls,
                    Call("get_statement", session_id, phase, <<>>,
                         statement_id, "raise", EmptyDict, took))
             /\ exc' = ClientError("get_statement")
             /\ waits' = Append(waits,
                    WaitEnd(ClientError("get_statement"), now + took,
                            Len(calls) + 1))
             /\ pc' = on_client_error
          ELSE
             LET response == [Statement |-> remote[statement_id]]
                 r == poll_result(response)
             IN /\ calls' = Append(calls,
                      Call("get_statement", session_id, phase, <<>>,
                           statement_id, "ok", response.Statement, took))
                /\ CASE r.do = "raise" ->
                          /\ exc' = r.exc
                          /\ waits' = Append(waits,
                                 WaitEnd(r.exc, now + took, Len(calls) + 1))
                          /\ pc' = "except"
                     [] r.do = "return" ->
                          /\ waits' = Append(waits,
                                 WaitEnd(None, now + took, Len(calls) + 1))
                          /\ pc' = after_wait(phase)
                          /\ UNCHANGED exc
                     [] OTHER ->
                          /\ pc' = "sleep"
                          /\ UNCHANGED << exc, waits >>
  /\ UNCHANGED << timeout, declared, compiled_code, code_packages, packages,
                  session_id, phase, statement_id, start_time, outcome,
                  raised, remote >>

\* a faulty variant of the sleep: the clock does not move
slept_no_time(t) == t

\* the clock after time.sleep(self.polling_interval) called at t
slept(t) == t + polling_interval

\* time.sleep(self.polling_interval)
Sleep ==
  /\ pc = "sleep"
  /\ now' = slept(now)
  /\ calls' = Append(calls,
                Call("sleep", NoSession, phase, <<>>, statement_id, "ok",
                     EmptyDict, polling_interval))
  /\ pc' = "loop"
  /\ UNCHANGED << timeout, declared, compiled_code, code_packages, packages,
                  session_id, phase, statement_id, start_time, exc, outcome,
                  raised, remote, waits >>

\* a faulty variant of the except clause: the exception is re-raised as it is
Wrapped_bare(e) == e

\* a faulty variant of the except clause: the message loses its prefix
Wrapped_no_prefix(e) == DbtRuntimeError(str(e))

\* DbtRuntimeError(f"Python model execution failed: {str(e)}")
Wrapped(e) ==
  DbtRuntimeError(<<"Python model execution failed: ">> \o str(e))

\* except Exception as e: raise DbtRuntimeError(...)
Except ==
  /\ pc = "except"
  /\ exc' = Wrapped(exc)
  /\ pc' = "finally"
  /\ UNCHANGED << timeout, declared, compiled_code, code_packages, packages,
                  session_id, phase, statement_id, start_time, now, outcome,
                  raised, remote, calls, waits >>

\* a faulty variant of the finally clause: close is not called
release_never(log, result) == log

\* connection.close(), as the spy sees it
release(log, result) ==
  Append(log, Call("close", NoSession, "-", <<>>, 0, result, EmptyDict, 0))

\* finally: connection.close()
Finally ==
  /\ pc = "finally"
  /\ \E r \in CloseResults :
       /\ calls' = release(calls, r)
       /\ IF r = "ok"
          THEN /\ outcome' = IF exc = None THEN "returned" ELSE "raised"
               /\ raised' = exc
          ELSE /\ outcome' = "raised"
               /\ raised' = ClientError("close")
  /\ pc' = "done"
  /\ UNCHANGED << timeout, declared, compiled_code, code_packages, packages,
                  session_id, phase, statement_id, start_time, now, exc,
                  remote, waits >>

Next ==
  \/ Connect
  \/ Scan
  \/ ScanExcept
  \/ MergePackages
  \/ RunInstall
  \/ RunMain
  \/ WaitStart
  \/ LoopCheck
  \/ Poll
  \/ Sleep
  \/ Except
  \/ Finally
  \/ RemoteStep

Spec == Init /\ [][Next]_vars

\* the steps of submit: the code runs on as long as each client call
\* returns or raises and each sleep ends
SubmitStep ==
  \/ Connect
  \/ Scan
  \/ ScanExcept
  \/ MergePackages
  \/ RunInstall
  \/ RunMain
  \/ WaitStart
  \/ LoopCheck
  \/ Poll
  \/ Sleep
  \/ Except
  \/ Finally

LiveSpec == Spec /\ WF_vars(SubmitStep)

\* _extract_packages_from_code alone, over the programs made of at most
\* MaxStatements statements and the inputs ast.parse rejects
ScanInit ==
  /\ pc = "scan"
  /\ timeout \in Timeouts
  /\ declared = <<>>
  /\ compiled_code \in ScanCodes
  /\ code_packages = <<>>
  /\ packages = <<>>
  /\ session_id \in SessionIds
  /\ phase = "none"
  /\ statement_id = 0
  /\ start_time = 0
  /\ now = 0
  /\ exc = None
  /\ outcome = "running"
  /\ raised = None
  /\ remote = <<>>
  /\ calls = <<>>
  /\ waits = <<>>

ScanNext ==
  \/ Scan
  \/ ScanExcept

ScanSpec == ScanInit /\ [][ScanNext]_vars

\* ------------------------------------------------- reading the spy's log
CallsOf(op) == { i \in DOMAIN calls : calls[i].op = op }

RunCalls == CallsOf("run_statement")

GetCalls == CallsOf("get_statement")

\* the run_statement call that carries the compiled code
MainRuns == { i \in RunCalls : calls[i].Code = <<compiled_code.text>> }

InstallRuns == RunCalls \ MainRuns

CloseCount == Cardinality(CallsOf("close"))

CloseReturned == \E i \in CallsOf("close") : calls[i].result = "ok"

\* connection.cursor() returned
Acquired == \E i \in CallsOf("cursor") : calls[i].result = "ok"

ClientCallRaised(i) ==
  /\ calls[i].op \in {"run_statement", "get_statement"}
  /\ calls[i].result = "raise"

\* the five letters of "error", in either case
IsErrorSpelling(status) ==
  /\ Len(status) = 5
  /\ status[1] \in {"e", "E"}
  /\ status[2] \in {"r", "R"}
  /\ status[3] \in {"r", "R"}
  /\ status[4] \in {"o", "O"}
  /\ status[5] \in {"r", "R"}

Observed(i) == i \in GetCalls /\ calls[i].result = "ok"

ObservedState(i, states) == Observed(i) /\ calls[i].response.State \in states

ObservedErrorPayload(i) ==
  /\ ObservedState(i, {"AVAILABLE"})
  /\ "Output" \in DOMAIN calls[i].response
  /\ "Status" \in DOMAIN calls[i].response.Output
  /\ IsErrorSpelling(calls[i].response.Output.Status)

ObservedSuccess(i) ==
  ObservedState(i, {"AVAILABLE"}) /\ ~ObservedErrorPayload(i)

WaitsOf(stmt) == { k \in DOMAIN waits : waits[k].stmt = stmt }

WaitTimedOut(k) == waits[k].result = TimedOut

\* ------------------------------------------------------------------ C1
\* the install statement failed: a poll saw it in ERROR or CANCELLED, or
\* AVAILABLE with an error payload, or its run_statement/get_statement call
\* raised, or its poll loop timed out
InstallFailed ==
  \/ \E i \in DOMAIN calls :
       /\ calls[i].stmt = "install"
       /\ \/ ClientCallRaised(i)
          \/ ObservedState(i, {"ERROR", "CANCELLED"})
          \/ ObservedErrorPayload(i)
  \/ \E k \in WaitsOf("install") : WaitTimedOut(k)

\* C1: when the package set is non-empty and the install statement fails in
\* any way, run_statement is never invoked for the compiled code, and submit
\* ends by raising.
C1_InstallFailureStopsSubmit ==
  InstallFailed =>
    /\ MainRuns = {}
    /\ pc = "done" => outcome = "raised"

\* an install statement seen in ERROR, and submit over
C1_Witness ==
  /\ pc = "done"
  /\ outcome = "raised"
  /\ \E i \in GetCalls :
       calls[i].stmt = "install" /\ ObservedState(i, {"ERROR"})

\* ------------------------------------------------------------------ C2
\* C2 as stated: whenever submit is over, connection.close was invoked
\* exactly once.
C2_ReleasedOnceAlways ==
  pc = "done" => CloseCount = 1

\* C2, amended: close is invoked exactly once on every exit path of an
\* invocation whose connection.cursor() returned, it is the last call of
\* the invocation, and it is not invoked when cursor() itself raised.
C2_ReleasedOnceIfAcquired ==
  /\ CloseCount <= 1
  /\ pc # "done" => CloseCount = 0
  /\ pc = "done" /\ Acquired => CloseCount = 1 /\ calls[Len(calls)].op = "close"
  /\ pc = "done" /\ ~Acquired => CloseCount = 0

\* the install statement succeeded, the main statement failed, close was
\* called once
C2_Witness ==
  /\ pc = "done"
  /\ outcome = "raised"
  /\ CloseCount = 1
  /\ \E k \in WaitsOf("install") : waits[k].result = None
  /\ \E k \in WaitsOf("main") : waits[k].result # None

\* ------------------------------------------------------------------ C3
\* the statements submitted whose wait has not ended yet
ActiveStatements ==
  { i \in RunCalls :
      /\ calls[i].result = "ok"
      /\ ~\E k \in DOMAIN waits : waits[k].Id = calls[i].Id }

\* C3: at most one statement is submitted and not yet awaited to the end;
\* the main statement is submitted only after the poll loop of the install
\* statement (when there is one) has returned, its last poll having seen
\* AVAILABLE without an error payload; after the main statement is
\* submitted no get_statement call is made for the install handle.
C3_InstallCompletesBeforeMain ==
  /\ Cardinality(ActiveStatements) <= 1
  /\ \A j \in MainRuns :
       /\ packages # <<>> =>
            \E i \in InstallRuns : \E k \in WaitsOf("install") :
              /\ i < j
              /\ calls[i].result = "ok"
              /\ waits[k].Id = calls[i].Id
              /\ waits[k].result = None
              /\ waits[k].ncalls < j
              /\ ObservedSuccess(waits[k].ncalls)
              /\ calls[waits[k].ncalls].Id = calls[i].Id
       /\ \A i \in InstallRuns : \A g \in GetCalls :
            g > j => calls[g].Id # calls[i].Id

\* an install statement awaited to success, then the main statement polled
C3_Witness ==
  /\ InstallRuns # {}
  /\ \E j \in MainRuns : \E g \in GetCalls : g > j /\ calls[g].stmt = "main"

\* ------------------------------------------------------------------ C4
PollsOf(k) == { i \in GetCalls : calls[i].Id = waits[k].Id }

TerminalStates == {"AVAILABLE", "CANCELLED", "ERROR"}

\* every poll of the wait returned, with a state that is not terminal
NonTerminalOnly(k) ==
  \A i \in PollsOf(k) :
    Observed(i) /\ calls[i].response.State \notin TerminalStates

\* the time the last get_statement call of the wait took
LastTook(k) ==
  IF PollsOf(k) = {} THEN 0
  ELSE calls[CHOOSE i \in PollsOf(k) : \A j \in PollsOf(k) : j <= i].took

\* C4 as stated: a wait whose polls all saw a non-terminal state ends with
\* the timeout error at an elapsed time t, timeout <= t < timeout +
\* polling_interval.
C4_TimeoutWithinOneInterval ==
  \A k \in DOMAIN waits :
    NonTerminalOnly(k) =>
      /\ WaitTimedOut(k)
      /\ timeout <= waits[k].elapsed
      /\ waits[k].elapsed < timeout + polling_interval

\* C4, amended: such a wait ends with the timeout error, never with a
\* result, at an elapsed time t with timeout <= t < timeout +
\* polling_interval + d, d being the time the last get_statement call took
\* (the clock is read before the call, not after it); t < timeout +
\* polling_interval when the get_statement calls take no time.
C4_TimeoutWithinIntervalPlusLastPoll ==
  \A k \in DOMAIN waits :
    NonTerminalOnly(k) =>
      /\ WaitTimedOut(k)
      /\ timeout <= waits[k].elapsed
      /\ waits[k].elapsed < timeout + polling_interval + LastTook(k)
      /\ (\A i \in PollsOf(k) : calls[i].took = 0) =>
           waits[k].elapsed < timeout + polling_interval

\* a wait that polled twice, saw no terminal state and timed out
C4_Witness ==
  \E k \in DOMAIN waits :
    /\ NonTerminalOnly(k)
    /\ WaitTimedOut(k)
    /\ Cardinality(PollsOf(k)) = 2

\* ------------------------------------------------------------------ C5
\* the main statement was submitted, and every statement submitted was seen
\* by a poll in AVAILABLE without an error payload
StatementsSucceeded ==
  /\ MainRuns # {}
  /\ packages # <<>> => InstallRuns # {}
  /\ \A i \in RunCalls :
       /\ calls[i].result = "ok"
       /\ \E g \in GetCalls : calls[g].Id = calls[i].Id /\ ObservedSuccess(g)

\* C5 as stated: submit returns normally exactly when every statement it
\* submitted was seen AVAILABLE without an error payload, and raises
\* DbtRuntimeError in every other outcome.
C5_ReturnsIffStatementsSucceed ==
  pc = "done" =>
    /\ outcome = "returned" <=> StatementsSucceeded
    /\ outcome # "returned" =>
         outcome = "raised" /\ raised.type = "DbtRuntimeError"

\* C5, amended: submit returns normally exactly when every statement it
\* submitted was seen AVAILABLE without an error payload and
\* connection.close() returned; otherwise it raises: DbtRuntimeError when
\* cursor() and close() returned, and the exception of cursor() or close(),
\* unwrapped, when one of them raised.
C5_ReturnsIffStatementsSucceedAndClose ==
  pc = "done" =>
    /\ outcome = "returned" <=> (StatementsSucceeded /\ CloseReturned)
    /\ outcome # "returned" => outcome = "raised"
    /\ outcome = "raised" /\ Acquired /\ CloseReturned =>
         raised.type = "DbtRuntimeError"
    /\ ~Acquired => raised = ClientError("cursor")
    /\ Acquired /\ ~CloseReturned => raised = ClientError("close")

\* packages installed, main statement run, submit returned
C5_Witness ==
  /\ pc = "done"
  /\ outcome = "returned"
  /\ InstallRuns # {}
  /\ MainRuns # {}

\* ------------------------------------------------------------------ C6
\* the wait that ended on call g of the log
WaitEndedAt(g) ==
  { k \in DOMAIN waits : waits[k].ncalls = g /\ waits[k].Id = calls[g].Id }

PolledAgain(g) ==
  \E h \in DOMAIN calls :
    /\ h > g
    /\ calls[h].op \in {"get_statement", "sleep"}
    /\ calls[h].Id = calls[g].Id

PayloadOf(g) == Get(calls[g].response, "Output", EmptyDict)

\* C6: a poll that sees AVAILABLE ends the wait: with a failure carrying
\* ErrorName, ErrorValue and Traceback exactly when the payload's Status
\* spells "error" in any case, with success for every other Status, a
\* missing Status and a missing Output.
C6_AvailableEndsWait ==
  \A g \in GetCalls :
    ObservedState(g, {"AVAILABLE"}) =>
      /\ ~PolledAgain(g)
      /\ WaitEndedAt(g) # {}
      /\ \A k \in WaitEndedAt(g) :
           IF ObservedErrorPayload(g)
           THEN waits[k].result =
                  DbtRuntimeError(<<"Python model failed with error: ",
                      Get(PayloadOf(g), "ErrorName", ""), "\n",
                      Get(PayloadOf(g), "ErrorValue", ""), "\n",
                      Get(PayloadOf(g), "Traceback", "")>>)
           ELSE waits[k].result = None

\* an AVAILABLE statement whose Status is "ERROR" in capitals ended its wait
\* with the failure
C6_Witness ==
  \E g \in GetCalls :
    /\ ObservedErrorPayload(g)
    /\ calls[g].response.Output.Status = <<"E","R","R","O","R">>
    /\ \E k \in WaitEndedAt(g) : waits[k].result.type = "DbtRuntimeError"

\* ------------------------------------------------------------------ C7
\* C7: a poll that sees CANCELLED or ERROR ends the wait at once with an
\* error naming the state, which is not the timeout error; no sleep and no
\* get_statement call for that handle follows.
C7_FailureStateEndsWait ==
  \A g \in GetCalls :
    ObservedState(g, {"CANCELLED", "ERROR"}) =>
      /\ ~PolledAgain(g)
      /\ \A h \in CallsOf("sleep") : h < g
      /\ WaitEndedAt(g) # {}
      /\ \A k \in WaitEndedAt(g) :
           /\ waits[k].result =
                DbtRuntimeError(<<"Statement execution failed with state: ",
                                  calls[g].response.State>>)
           /\ ~WaitTimedOut(k)

\* the main statement seen CANCELLED on its second poll
C7_Witness ==
  \E g \in GetCalls :
    /\ ObservedState(g, {"CANCELLED"})
    /\ calls[g].stmt = "main"
    /\ \E h \in GetCalls : h < g /\ calls[h].Id = calls[g].Id
    /\ WaitEndedAt(g) # {}

\* ------------------------------------------------------------------ C8
\* the packages are merged once submit is past line 74
PackagesMerged == Acquired /\ pc \notin {"scan", "scan_except", "merge"}

ScannedPackages == extract_packages_from_code(compiled_code)

Occurrences(x, text) == Cardinality({ i \in DOMAIN text : text[i] = x })

InstallDecided == PackagesMerged /\ pc # "run_install"

\* C8: the package list of submit holds every declared and every scanned
\* package once and nothing else; the set is the same whichever source
\* comes first; the install statement names each package of the union
\* exactly once and no other package; it is submitted exactly when the union
\* is not empty, and an empty union gives one run_statement call, for the
\* compiled code.
C8_PackageUnion ==
  PackagesMerged =>
    LET scanned == ScannedPackages
        union == Range(declared) \cup Range(scanned)
    IN /\ Range(packages) = union
       /\ Len(packages) = Cardinality(union)
       /\ merged_packages(declared, scanned) =
            merged_packages(scanned, declared)
       /\ \A i \in InstallRuns :
            \A p \in union \cup {"a", "b", "c"} :
              Occurrences(p, calls[i].Code) = IF p \in union THEN 1 ELSE 0
       /\ InstallRuns # {} => union # {}
       /\ InstallDecided /\ union # {} =>
            /\ InstallRuns # {}
            /\ \A i \in InstallRuns : \A j \in MainRuns : i < j
       /\ union = {} =>
            /\ RunCalls = MainRuns
            /\ Cardinality(RunCalls) <= 1
            /\ InstallDecided /\ pc # "run_main" => Cardinality(RunCalls) = 1

\* declared ["b"] and scanned ["b", "c"]: one install statement for two
\* packages
C8_Witness ==
  /\ declared = <<"b">>
  /\ ScannedPackages = <<"b", "c">>
  /\ \E i \in InstallRuns : calls[i].result = "ok"
  /\ Len(packages) = 2

\* ------------------------------------------------------------------ C9
\* a failure arose while the install or the main statement was executed
ExecutionFailed ==
  \/ \E i \in DOMAIN calls :
       \/ ClientCallRaised(i)
       \/ ObservedState(i, {"ERROR", "CANCELLED"})
       \/ ObservedErrorPayload(i)
  \/ \E k \in DOMAIN waits : WaitTimedOut(k)

\* the exception that failure raised inside the try block
FailureRaised ==
  IF \E i \in RunCalls : calls[i].result = "raise"
  THEN ClientError("run_statement")
  ELSE waits[Len(waits)].result

ExecutionFailedMessage == "Python model execution failed: "

\* C9 as stated: every such failure leaves submit as a DbtRuntimeError with
\* the 'Python model execution failed' message, close having been called.
C9_FailuresLeaveAsDbtRuntimeError ==
  pc = "done" /\ ExecutionFailed =>
    /\ outcome = "raised"
    /\ raised.type = "DbtRuntimeError"
    /\ raised.msg[1] = ExecutionFailedMessage
    /\ CloseCount = 1

\* C9, amended: every such failure leaves submit as a DbtRuntimeError whose
\* message is 'Python model execution failed: ' followed by str() of the
\* failure (for a failure of the poll loop, itself a DbtRuntimeError, the
\* line 'Runtime Error' and then its message, indented), provided
\* connection.close() returns; when close() raises in the finally clause,
\* the exception of close() leaves submit instead.  In both cases close
\* has been called, once, before the error reaches the caller.
C9_FailuresLeaveAsDbtRuntimeErrorUnlessCloseRaises ==
  /\ outcome = "raised" /\ Acquired => CloseCount = 1
  /\ pc = "done" /\ ExecutionFailed =>
       /\ outcome = "raised"
       /\ CloseCount = 1
       /\ CloseReturned =>
            /\ raised = DbtRuntimeError(<<ExecutionFailedMessage>>
                                        \o str(FailureRaised))
            /\ FailureRaised.type = "DbtRuntimeError" =>
                 /\ SubSeq(raised.msg, 2, 4) = <<"Runtime Error", "\n", "  ">>
                 /\ raised.msg[5] = FailureRaised.msg[1]
            /\ FailureRaised.type = "ClientError" =>
                 raised.msg = <<ExecutionFailedMessage>> \o FailureRaised.msg
       /\ ~CloseReturned => raised = ClientError("close")

\* a timeout of the main statement left submit as the wrapped error
C9_Witness ==
  /\ pc = "done"
  /\ \E k \in WaitsOf("main") : WaitTimedOut(k)
  /\ raised =
       DbtRuntimeError(<<"Python model execution failed: ",
                         "Runtime Error", "\n", "  ",
                         "Timed out waiting for statement to complete">>)
  /\ CloseCount = 1

\* ----------------------------------------------------------------- C10
\* C10: run_statement is invoked at most once for the install statement and
\* at most once for the compiled code; after a run_statement or
\* get_statement call that raised, and after a timeout, no statement is
\* submitted, polled or slept on again, and submit ends by raising.
C10_NoRetry ==
  /\ Cardinality(InstallRuns) <= 1
  /\ Cardinality(MainRuns) <= 1
  /\ Cardinality(RunCalls) <= 2
  /\ \A i \in DOMAIN calls :
       ClientCallRaised(i) =>
         /\ \A h \in DOMAIN calls : h > i => calls[h].op = "close"
         /\ pc = "done" => outcome = "raised"
  /\ \A k \in DOMAIN waits :
       WaitTimedOut(k) =>
         /\ \A h \in DOMAIN calls : h > waits[k].ncalls => calls[h].op = "close"
         /\ pc = "done" => outcome = "raised"

\* a get_statement call raised on the second poll and submit is over
C10_Witness ==
  /\ pc = "done"
  /\ \E i \in GetCalls :
       /\ ClientCallRaised(i)
       /\ \E h \in GetCalls : h < i /\ calls[h].Id = calls[i].Id

\* ----------------------------------------------------------------- C11
\* _extract_packages_from_code has returned
Scanned == pc = "merge"

\* a call dbt.config(...): the receiver is the bare name dbt, the attribute
\* is config
IsConfigOnDbt(node) ==
  /\ node.type = "Call"
  /\ node.func = Attribute(NameNode("dbt"), "config")

\* the keywords packages=[...] of a call, the value being a literal list
LiteralPackages(node) ==
  { k \in DOMAIN node.keywords :
      /\ node.keywords[k].arg = "packages"
      /\ node.keywords[k].value.type = "List" }

\* the calls of the shape dbt.config(..., packages=[...])
ShapedCalls(nodes) ==
  { i \in DOMAIN nodes :
      IsConfigOnDbt(nodes[i]) /\ LiteralPackages(nodes[i]) # {} }

Least(S) == CHOOSE x \in S : \A y \in S : x <= y

\* the constants of a list, in the order of the text
RECURSIVE Literals(_)
Literals(elts) ==
  IF elts = <<>> THEN <<>>
  ELSE (IF elts[1].type = "Constant" THEN <<elts[1].value>> ELSE <<>>)
       \o Literals(Tail(elts))

AllConstants(elts) == \A i \in DOMAIN elts : elts[i].type = "Constant"

\* C11: for a text that parses, _extract_packages_from_code returns the
\* literals of the packages list of the first call of the shape
\* dbt.config(..., packages=[...]), in the order of the text: every element
\* of the list when the list holds constants only; a dbt.config call whose
\* packages value is no literal list, a call on another receiver or of
\* another attribute contributes nothing, and a text with no call of the
\* shape gives the empty list.
C11_ScanReturnsLiterals ==
  Scanned /\ compiled_code.parse = "ok" =>
    LET nodes == compiled_code.nodes
        shaped == ShapedCalls(nodes)
    IN /\ shaped = {} => code_packages = <<>>
       /\ shaped # {} =>
            LET call == nodes[Least(shaped)]
                elts == call.keywords[Least(LiteralPackages(call))].value.elts
            IN /\ code_packages = Literals(elts)
               /\ AllConstants(elts) =>
                    /\ Len(code_packages) = Len(elts)
                    /\ \A i \in DOMAIN elts : code_packages[i] = elts[i].value
       /\ compiled_code.text = "dbt.config(packages=[\"b\", \"a\"])" =>
            code_packages = <<"b", "a">>
       /\ compiled_code.text = "dbt.config(packages=pkgs)" =>
            code_packages = <<>>
       /\ compiled_code.text = "other.config(packages=[\"z\"])\nx = 1" =>
            code_packages = <<>>
       /\ compiled_code.text = "x = 1" => code_packages = <<>>

\* a dbt.config call with a variable for packages, followed by one with a
\* literal list: the list of the second one is returned
C11_Witness ==
  /\ Scanned
  /\ compiled_code.text =
       "dbt.config(packages=pkgs)\ndbt.config(packages=[\"b\", \"a\"])"
  /\ code_packages = <<"b", "a">>

\* ----------------------------------------------------------------- C12
\* ast.parse raises on the compiled code
ParseFails == compiled_code.parse # "ok"

ParseErrors == {"SyntaxError", "TypeError"}

\* submit is past the call of _extract_packages_from_code
ScanIsOver == Acquired /\ pc \notin {"scan", "scan_except"}

\* C12: when ast.parse fails on the compiled code (a syntax error, an
\* argument that is no text), no exception of the scan is in flight after it
\* or leaves submit, the scan returns the empty list, the package list is
\* the declared packages alone, the install statement names them and no
\* other, and submit goes on: it ends without a run_statement call for the
\* compiled code only when the install statement failed.
C12_ScanFailureIsSwallowed ==
  ParseFails =>
    /\ raised.type \notin ParseErrors
    /\ ScanIsOver =>
         /\ exc.type \notin ParseErrors
         /\ code_packages = <<>>
    /\ PackagesMerged =>
         /\ Range(packages) = Range(declared)
         /\ Len(packages) = Cardinality(Range(declared))
         /\ \A i \in InstallRuns : \A p \in {"a", "b", "c"} :
              Occurrences(p, calls[i].Code) =
                IF p \in Range(declared) THEN 1 ELSE 0
    /\ pc = "done" /\ Acquired /\ MainRuns = {} => InstallFailed

\* a text with a syntax error: the declared package was installed and the
\* text was submitted as the main statement
C12_Witness ==
  /\ compiled_code.parse = "SyntaxError"
  /\ declared # <<>>
  /\ \E i \in InstallRuns : \E j \in MainRuns :
       i < j /\ calls[i].result = "ok" /\ calls[j].result = "ok"

\* ----------------------------------------------------------------- C13
\* the get_statement calls made for a statement
PollsFor(id) == { g \in GetCalls : calls[g].Id = id }

\* the polls a wait can make: one per polling interval begun before the
\* timeout
MaxPolls == (timeout + polling_interval - 1) \div polling_interval

PollsBounded ==
  \A i \in RunCalls :
    calls[i].result = "ok" => Cardinality(PollsFor(calls[i].Id)) <= MaxPolls

\* C13: every submit invocation ends, by returning or by raising, whatever
\* the remote statements do: each wait polls at most once per polling
\* interval begun before the timeout, and submit reaches its end.
C13_SubmitTerminates == [](PollsBounded) /\ <>(pc = "done")

\* a statement that stayed RUNNING to the end of its wait, submit being over
C13_Witness ==
  /\ pc = "done"
  /\ \E k \in DOMAIN waits :
       /\ WaitTimedOut(k)
       /\ remote[waits[k].Id].State = "RUNNING"
       /\ Cardinality(PollsFor(waits[k].Id)) = 2

\* ----------------------------------------------------------------- C14
\* what the wait for a statement spent in get_statement and time.sleep
\* before call g of the log: the elapsed time the clock check before g saw
RECURSIVE SpentBefore(_, _)
SpentBefore(id, g) ==
  IF g <= 1 THEN 0
  ELSE SpentBefore(id, g - 1)
       + (IF /\ calls[g - 1].Id = id
             /\ calls[g - 1].op \in {"get_statement", "sleep"}
          THEN calls[g - 1].took ELSE 0)

SawNonTerminal(g) ==
  Observed(g) /\ calls[g].response.State \notin TerminalStates

\* C14: each get_statement call follows a clock check that saw an elapsed
\* time strictly below the timeout; a poll that saw a non-terminal state is
\* followed by one sleep of polling_interval and then by the next clock
\* check (a poll of the same handle, or the end of the wait); with timeout 0
\* no statement is ever polled or slept on and each wait ends at once with
\* the timeout error; a wait whose polls all saw a non-terminal state ends
\* with the timeout error also when the statement has become AVAILABLE in
\* the meantime.
C14_PollOnlyBeforeTimeout ==
  /\ \A g \in GetCalls : SpentBefore(calls[g].Id, g) < timeout
  /\ \A g \in GetCalls :
       SawNonTerminal(g) =>
         /\ g = Len(calls) => pc = "sleep"
         /\ g < Len(calls) =>
              /\ calls[g + 1].op = "sleep"
              /\ calls[g + 1].Id = calls[g].Id
              /\ calls[g + 1].took = polling_interval
              /\ g + 1 = Len(calls) => pc \in {"loop", "poll", "except",
                                               "finally"}
              /\ g + 1 < Len(calls) =>
                   \/ calls[g + 2].op = "close"
                   \/ /\ calls[g + 2].op = "get_statement"
                      /\ calls[g + 2].Id = calls[g].Id
  /\ timeout = 0 =>
       /\ GetCalls = {}
       /\ CallsOf("sleep") = {}
       /\ \A k \in DOMAIN waits : WaitTimedOut(k) /\ waits[k].elapsed = 0
       /\ \A i \in RunCalls :
            calls[i].result = "ok" /\ pc \in {"except", "finally", "done"} =>
              \E k \in DOMAIN waits : waits[k].Id = calls[i].Id
  /\ \A k \in DOMAIN waits :
       /\ remote[waits[k].Id].State = "AVAILABLE"
       /\ NonTerminalOnly(k)
       => /\ WaitTimedOut(k)
          /\ waits[k].elapsed >= timeout

\* the main statement became AVAILABLE, with a payload that is no error,
\* during the sleep that followed its second poll; its wait timed out
C14_Witness ==
  \E k \in WaitsOf("main") :
    /\ WaitTimedOut(k)
    /\ Cardinality(PollsOf(k)) = 2
    /\ NonTerminalOnly(k)
    /\ remote[waits[k].Id].State = "AVAILABLE"
    /\ "Output" \in DOMAIN remote[waits[k].Id]
    /\ remote[waits[k].Id].Output = [Status |-> <<"o","k">>]
    /\ outcome = "raised"

\* ----------------------------------------------------------------- C15
\* the wait of a statement is measured on a clock of its own: its elapsed
\* time is what its own get_statement calls and sleeps took
OwnClock(k) ==
  waits[k].elapsed = SpentBefore(waits[k].Id, waits[k].ncalls + 1)

\* a wait under way is measured from its own start too
OwnClockNow ==
  pc \in {"loop", "poll", "sleep"} =>
    now - start_time = SpentBefore(statement_id, Len(calls) + 1)

\* each statement is polled as long as its own elapsed time is below the
\* timeout, whatever the waits before it took
FullBudget ==
  \A g \in GetCalls : SpentBefore(calls[g].Id, g) < timeout

\* C15 as stated: each wait has a clock of its own and the full timeout, and
\* lasts at most timeout + polling_interval.
C15_FreshClockWithinOneInterval ==
  /\ OwnClockNow
  /\ FullBudget
  /\ \A k \in DOMAIN waits :
       /\ OwnClock(k)
       /\ waits[k].elapsed <= timeout + polling_interval

\* C15, amended: each wait has a clock of its own and the full timeout: the
\* time the install wait took is not counted against the main statement;
\* each wait lasts less than timeout + polling_interval + d, d being the
\* time its last get_statement call took, and a wait that returned lasted
\* less than timeout + d.
C15_FreshClockPerWait ==
  /\ OwnClockNow
  /\ FullBudget
  /\ \A k \in DOMAIN waits :
       /\ OwnClock(k)
       /\ waits[k].elapsed < timeout + polling_interval + LastTook(k)
       /\ waits[k].result = None => waits[k].elapsed < timeout + LastTook(k)

\* the install wait returned on its second poll, then the main wait polled
\* twice and timed out: submit waited for more than twice the timeout
C15_Witness ==
  /\ timeout > 0
  /\ \E ki \in WaitsOf("install") : \E km \in WaitsOf("main") :
       /\ waits[ki].result = None
       /\ waits[ki].elapsed >= polling_interval
       /\ WaitTimedOut(km)
       /\ Cardinality(PollsOf(km)) = 2
       /\ waits[ki].elapsed + waits[km].elapsed > 2 * timeout
       /\ now = waits[ki].elapsed + waits[km].elapsed

\* ----------------------------------------------------------------- C16
\* what submit calls on the connection and on the session client
ClientOperations == {"cursor", "run_statement", "get_statement", "close"}

OnlyClientOperations ==
  \A i \in DOMAIN calls : calls[i].op \in ClientOperations \cup {"sleep"}

\* a step of submit (each one moves pc) leaves the statements of the
\* session as they are; run_statement adds one, in state RUNNING
StatementsKept ==
  pc' # pc =>
    /\ Len(remote') \in {Len(remote), Len(remote) + 1}
    /\ \A i \in DOMAIN remote : remote'[i] = remote[i]
    /\ Len(remote') > Len(remote) =>
         /\ pc \in {"run_install", "run_main"}
         /\ remote'[Len(remote')].State = "RUNNING"

\* C16: submit calls nothing but cursor, run_statement, get_statement and
\* close (and time.sleep); no step of submit, the timeout and the other
\* failure paths included, changes the state of a statement of the session.
C16_NeverCancels == [](OnlyClientOperations) /\ [][StatementsKept]_vars

\* the main statement timed out, submit raised and closed the connection:
\* the statement is still RUNNING
C16_Witness ==
  /\ pc = "done"
  /\ outcome = "raised"
  /\ calls[Len(calls)].op = "close"
  /\ \E k \in WaitsOf("main") :
       /\ WaitTimedOut(k)
       /\ remote[waits[k].Id].State = "RUNNING"
       /\ calls[waits[k].ncalls].op = "sleep"

\* ----------------------------------------------------------------- C17
StatementCalls == RunCalls \cup GetCalls

\* the run_statement call made last before call g of the log
LastRunBefore(g) ==
  CHOOSE r \in RunCalls :
    r < g /\ \A q \in RunCalls : q < g => q <= r

\* C17: every run_statement and get_statement call of a submit invocation
\* carries the session id the connection gave at the start, so the install
\* statement and the main statement run in one session; every
\* get_statement call asks for the handle the most recent run_statement
\* call returned, which is not the handle of another statement.
C17_OneSessionLatestHandle ==
  /\ \A i \in StatementCalls :
       /\ Acquired
       /\ calls[i].SessionId \in SessionIds
       /\ calls[i].SessionId = session_id
  /\ \A i, j \in StatementCalls : calls[i].SessionId = calls[j].SessionId
  /\ \A g \in GetCalls :
       /\ \E r \in RunCalls : r < g
       /\ calls[LastRunBefore(g)].result = "ok"
       /\ calls[g].Id = calls[LastRunBefore(g)].Id
       /\ calls[g].stmt = calls[LastRunBefore(g)].stmt
       /\ \A r \in RunCalls :
            r # LastRunBefore(g) /\ calls[r].result = "ok" =>
              calls[r].Id # calls[g].Id

\* in session-2 the install statement was polled, then the main statement
\* was submitted and polled with its own handle
C17_Witness ==
  /\ session_id = "session-2"
  /\ \E i \in InstallRuns : \E j \in MainRuns :
       /\ \E g \in GetCalls : i < g /\ g < j /\ calls[g].Id = calls[i].Id
       /\ \E g \in GetCalls : j < g /\ calls[g].Id = calls[j].Id
       /\ calls[i].Id # calls[j].Id
       /\ calls[i].SessionId = "session-2"
       /\ calls[j].SessionId = "session-2"

====
